---- MODULE Spec2Model ----
(***************************************************************************)
(* Model of the signless-demo-backend session store (sessionManager.js),   *)
(* the ledger matcher that follows it in the same file, and the HTTP       *)
(* routes of routes/auth.js that drive them.                               *)
(*                                                                         *)
(* Time is counted in clock ticks, amounts in lamports (1e-9 SOL).         *)
(* Node runs every synchronous stretch of a handler to completion, so one  *)
(* action is one such stretch; an `await` splits a handler into the action *)
(* that runs up to it and the action that resumes after it.  The ledger    *)
(* only grows, and the RPC node that answers may lag behind it, so what    *)
(* the RPC calls made during an await have read is the current or some     *)
(* earlier state of the ledger.                                            *)
(***************************************************************************)
EXTENDS Integers, Sequences, FiniteSets, Bags, TLC

\* ------------------------------------------------------------------ bounds
MaxSessions == 2
MaxTime == 2
MaxDrift == 1
NumHandlers == 2

\* ------------------------------------------------------- program constants
\* SESSION_EXPIRY_MINUTES * 60 * 1000, here in clock ticks
SESSION_EXPIRY == 1
\* VERIFICATION_AMOUNT || '0.00001' SOL, in lamports
BaseAmount == 10000
\* amountDiff < 0.000001 SOL, in lamports
ToleranceA == 1000
\* tolerance = 0.0001 SOL, in lamports
ToleranceB == 100000
\* getSignaturesForAddress(..., { limit: 20 })
ScanLimit == 20

\* uuidv4 never returns an id a client could have used before: ids are
\* issued in order, and 0 stands for any id that was never issued.  An id
\* drawn by a create() that throws is never stored nor returned, so it is
\* not counted.
UnknownId == 0
Receiver == "R"
Wallets == {"w1"}
NoSig == "none"
NoTime == -1
NoStr == "-"

\* The confirmed transactions that may appear on the ledger.
TxA == [signature |-> "sigA", keys |-> <<"w1", "R">>,
        pre |-> <<90000, 0>>, post |-> <<74999, 10001>>, err |-> FALSE]
Txs == {TxA}
\* Signatures a client may submit.  One the ledger does not know needs no
\* second value: a signature is unknown until its transaction is confirmed.
Sigs == {"sigA"}

VARIABLES
  pendingAuth,   \* Map sessionId -> authRequest (pending partition)
  sessions,      \* Map sessionId -> authRequest (verified partition)
  timers,        \* Map sessionId -> time from which its setTimeout may fire
  nextId,        \* next id uuidv4 will return
  now,           \* Date.now()
  env,           \* process.env.RECEIVER_WALLET_ADDRESS ("" when unset)
  ledger,        \* confirmed transactions of the receiver, newest first
  inflight,      \* bag of the requests suspended at an await
  last,          \* the answer sent in the step just taken, if that step
                 \* changed the store or resumed a handler (see Reply)
  applied        \* a function of the store or of the matcher applied on its
                 \* own: its name, its arguments and its result (NoCall while
                 \* the server runs)

vars == <<pendingAuth, sessions, timers, nextId, now, env, ledger, inflight,
          last, applied>>

\* ------------------------------------------------------------ Map helpers
EmptyMap == [x \in {} |-> 0]
Has(m, k) == k \in DOMAIN m
Put(m, k, v) == [x \in DOMAIN m \cup {k} |-> IF x = k THEN v ELSE m[x]]
DelClears(m, k) == EmptyMap
Del(m, k) == [x \in DOMAIN m \ {k} |-> m[x]]
Abs(x) == IF x < 0 THEN -x ELSE x
Min(a, b) == IF a < b THEN a ELSE b

\* A JSON body; a field the code does not set keeps its default.
Body == [status |-> NoStr, verified |-> NoStr, success |-> NoStr,
         message |-> NoStr, error |-> NoStr, sessionId |-> UnknownId,
         walletAddress |-> NoStr, receiverAddress |-> NoStr,
         expectedAmount |-> -1, expiresAt |-> NoTime,
         signature |-> NoSig, verifiedAt |-> NoTime]

\* ------------------------------------------------------- sessionManager.js
\* t0, t1, t2, t3: the values of the four clock reads of createAuthRequest
\* (uniqueModifier, createdAt, expiresAt, setTimeout).
uniqueModifierWholeClock(t) == t
\* (Date.now() % 1000) / 1000000000 SOL, in lamports
uniqueModifier(t) == t % 1000

receiverMissingNever(receiverAddress) == FALSE
\* !receiverAddress
receiverMissing(receiverAddress) == receiverAddress = ""

createAuthRequest(pa, tm, sessionId, walletAddress, receiverAddress, t0, t1, t2, t3) ==
  LET expectedAmount == BaseAmount + uniqueModifier(t0)
      authRequest == [sessionId |-> sessionId,
                      walletAddress |-> walletAddress,
                      receiverAddress |-> receiverAddress,
                      expectedAmount |-> expectedAmount,
                      status |-> "pending",
                      createdAt |-> t1,
                      expiresAt |-> t2 + SESSION_EXPIRY,
                      verified |-> FALSE,
                      signature |-> NoSig,
                      verifiedAt |-> NoTime]
  IN IF receiverMissing(receiverAddress)
     THEN [thrown |-> "RECEIVER_WALLET_ADDRESS not configured",
           pendingAuth |-> pa, timers |-> tm, ret |-> Body]
     ELSE [thrown |-> NoStr,
           pendingAuth |-> Put(pa, sessionId, authRequest),
           timers |-> Put(tm, sessionId, t3 + SESSION_EXPIRY),
           ret |-> [Body EXCEPT !.sessionId = sessionId,
                                !.receiverAddress = receiverAddress,
                                !.expectedAmount = expectedAmount,
                                !.expiresAt = authRequest.expiresAt,
                                !.message = "Send exactly"]]

expiredAtVerifyNever(authRequest, t) == FALSE
\* Date.now() > authRequest.expiresAt in verifyAuthRequest
expiredAtVerify(authRequest, t) == t > authRequest.expiresAt

verificationFailureDropsRequest(pa, ss, sessionId, verificationResult) ==
  [thrown |-> NoStr, pendingAuth |-> Del(pa, sessionId), sessions |-> ss,
   ret |-> [Body EXCEPT !.success = "false",
              !.error = IF verificationResult.error = NoStr
                        THEN "Transaction verification failed"
                        ELSE verificationResult.error]]
\* the early return of verifyAuthRequest when the proof did not verify
verificationFailure(pa, ss, sessionId, verificationResult) ==
  [thrown |-> NoStr, pendingAuth |-> pa, sessions |-> ss,
   ret |-> [Body EXCEPT !.success = "false",
              !.error = IF verificationResult.error = NoStr
                        THEN "Transaction verification failed"
                        ELSE verificationResult.error]]

moveToSessionsKeepsPending(pa, ss, sessionId, authRequest) ==
  [pendingAuth |-> Put(pa, sessionId, authRequest),
   sessions |-> Put(ss, sessionId, authRequest)]
\* sessions.set(sessionId, authRequest); pendingAuth.delete(sessionId)
moveToSessions(pa, ss, sessionId, authRequest) ==
  [pendingAuth |-> Del(pa, sessionId),
   sessions |-> Put(ss, sessionId, authRequest)]

\* t1, t2: the clock reads of the expiry check and of verifiedAt.
verifyAuthRequestRejectsAll(pa, ss, sessionId, signature, verificationResult, t1, t2) ==
  [thrown |-> "Session not found or expired", pendingAuth |-> pa,
   sessions |-> ss, ret |-> Body]
verifyAuthRequest(pa, ss, sessionId, signature, verificationResult, t1, t2) ==
  IF ~Has(pa, sessionId)
  THEN [thrown |-> "Session not found or expired",
        pendingAuth |-> pa, sessions |-> ss, ret |-> Body]
  ELSE IF expiredAtVerify(pa[sessionId], t1)
  THEN [thrown |-> "Session expired",
        pendingAuth |-> Del(pa, sessionId), sessions |-> ss, ret |-> Body]
  ELSE IF ~verificationResult.verified
  THEN verificationFailure(pa, ss, sessionId, verificationResult)
  ELSE LET authRequest == [pa[sessionId] EXCEPT !.status = "verified",
                                                !.verified = TRUE,
                                                !.signature = signature,
                                                !.verifiedAt = t2]
           moved == moveToSessions(pa, ss, sessionId, authRequest)
       IN [thrown |-> NoStr,
           pendingAuth |-> moved.pendingAuth,
           sessions |-> moved.sessions,
           ret |-> [Body EXCEPT !.success = "true",
                                !.sessionId = sessionId,
                                !.walletAddress = authRequest.walletAddress,
                                !.signature = signature,
                                !.verifiedAt = authRequest.verifiedAt]]

expireLazilyKeepsRequest(pa, sessionId) == pa
\* pendingAuth.delete(sessionId) of getAuthStatus on an expired request
expireLazily(pa, sessionId) == Del(pa, sessionId)

getAuthStatusExpiresVerified(pa, ss, sessionId, t) ==
  IF Has(ss, sessionId) /\ t > ss[sessionId].expiresAt
  THEN [pendingAuth |-> pa,
        ret |-> [Body EXCEPT !.status = "expired", !.verified = "false",
                             !.error = "Session expired"]]
  ELSE IF Has(ss, sessionId)
    THEN [pendingAuth |-> pa,
          ret |-> [Body EXCEPT !.status = "verified", !.verified = "true",
                               !.walletAddress = ss[sessionId].walletAddress,
                               !.signature = ss[sessionId].signature,
                               !.verifiedAt = ss[sessionId].verifiedAt]]
    ELSE IF Has(pa, sessionId)
    THEN IF t > pa[sessionId].expiresAt
         THEN [pendingAuth |-> expireLazily(pa, sessionId),
               ret |-> [Body EXCEPT !.status = "expired", !.verified = "false",
                                    !.error = "Session expired"]]
         ELSE [pendingAuth |-> pa,
               ret |-> [Body EXCEPT !.status = "pending", !.verified = "false",
                          !.walletAddress = pa[sessionId].walletAddress,
                          !.expiresAt = pa[sessionId].expiresAt,
                          !.expectedAmount = pa[sessionId].expectedAmount,
                          !.receiverAddress = pa[sessionId].receiverAddress]]
    ELSE [pendingAuth |-> pa,
          ret |-> [Body EXCEPT !.status = "not_found", !.verified = "false",
                               !.error = "Session not found"]]
getAuthStatus(pa, ss, sessionId, t) ==
  IF Has(ss, sessionId)
  THEN [pendingAuth |-> pa,
        ret |-> [Body EXCEPT !.status = "verified", !.verified = "true",
                             !.walletAddress = ss[sessionId].walletAddress,
                             !.signature = ss[sessionId].signature,
                             !.verifiedAt = ss[sessionId].verifiedAt]]
  ELSE IF Has(pa, sessionId)
  THEN IF t > pa[sessionId].expiresAt
       THEN [pendingAuth |-> expireLazily(pa, sessionId),
             ret |-> [Body EXCEPT !.status = "expired", !.verified = "false",
                                  !.error = "Session expired"]]
       ELSE [pendingAuth |-> pa,
             ret |-> [Body EXCEPT !.status = "pending", !.verified = "false",
                        !.walletAddress = pa[sessionId].walletAddress,
                        !.expiresAt = pa[sessionId].expiresAt,
                        !.expectedAmount = pa[sessionId].expectedAmount,
                        !.receiverAddress = pa[sessionId].receiverAddress]]
  ELSE [pendingAuth |-> pa,
        ret |-> [Body EXCEPT !.status = "not_found", !.verified = "false",
                             !.error = "Session not found"]]

invalidateSessionVerifiedOnly(pa, ss, sessionId) ==
  [sessions |-> Del(ss, sessionId),
   pendingAuth |-> pa,
   ret |-> [Body EXCEPT !.success = "true", !.message = "Session invalidated"]]
invalidateSession(pa, ss, sessionId) ==
  [sessions |-> Del(ss, sessionId),
   pendingAuth |-> Del(pa, sessionId),
   ret |-> [Body EXCEPT !.success = "true", !.message = "Session invalidated"]]

cleanupExpiredSessionsKeepsAll(pa, t) == [pendingAuth |-> pa, ret |-> 0]
cleanupExpiredSessionsAtExpiry(pa, t) ==
  LET gone == {s \in DOMAIN pa : t >= pa[s].expiresAt}
  IN [pendingAuth |-> [s \in DOMAIN pa \ gone |-> pa[s]],
      ret |-> Cardinality(gone)]
cleanupExpiredSessions(pa, t) ==
  LET gone == {s \in DOMAIN pa : t > pa[s].expiresAt}
  IN [pendingAuth |-> [s \in DOMAIN pa \ gone |-> pa[s]],
      ret |-> Cardinality(gone)]

\* The body of the setTimeout callback of createAuthRequest.
expiryTimer(pa, sessionId) ==
  IF Has(pa, sessionId) THEN Del(pa, sessionId) ELSE pa

\* ------------------------------------------------- ledger matcher (solana)
IndexOf(keys, a) ==
  IF \E i \in 1 .. Len(keys) : keys[i] = a
  THEN CHOOSE i \in 1 .. Len(keys) :
         keys[i] = a /\ \A j \in 1 .. (i - 1) : keys[j] # a
  ELSE 0

NoMatch == [found |-> FALSE, signature |-> NoSig, receivedAmount |-> -1,
            error |-> NoStr]

\* ioFails: an RPC call of this scan rejects (network or ledger unreachable).
checkForIncomingTransaction(ldg, ioFails, expectedSender, receiverAddress, expectedAmount) ==
  LET window == 1 .. Min(Len(ldg), ScanLimit)
      receivedAmount(tx) ==
        tx.post[IndexOf(tx.keys, receiverAddress)]
          - tx.pre[IndexOf(tx.keys, receiverAddress)]
      matches(tx) == /\ ~tx.err
                     /\ tx.keys[1] = expectedSender
                     /\ IndexOf(tx.keys, receiverAddress) # 0
                     /\ Abs(receivedAmount(tx) - expectedAmount) < ToleranceA
      hits == {i \in window : matches(ldg[i])}
  IN IF ioFails THEN [NoMatch EXCEPT !.error = "rpc error"]
     ELSE IF hits = {} THEN NoMatch
     ELSE LET i == CHOOSE k \in hits : \A j \in hits : k <= j
          IN [NoMatch EXCEPT !.found = TRUE,
                             !.signature = ldg[i].signature,
                             !.receivedAmount = receivedAmount(ldg[i])]

NotVerified(msg) == [verified |-> FALSE, error |-> msg, signature |-> NoSig,
                     amount |-> -1]

verifyTransaction(ldg, ioFails, signature, fromAddress, toAddress, expectedAmount) ==
  LET found == {i \in 1 .. Len(ldg) : ldg[i].signature = signature}
  IN IF ioFails THEN NotVerified("rpc error")
     ELSE IF found = {}
     THEN NotVerified("Transaction not found or not yet confirmed")
     ELSE LET tx == ldg[CHOOSE i \in found : TRUE]
              fromIndex == IndexOf(tx.keys, fromAddress)
              toIndex == IndexOf(tx.keys, toAddress)
          IN IF tx.err THEN NotVerified("Transaction failed on chain")
             ELSE IF fromIndex = 0 \/ toIndex = 0
             THEN NotVerified("Sender or receiver not found in transaction")
             ELSE IF Abs((tx.post[toIndex] - tx.pre[toIndex])
                         - expectedAmount) > ToleranceB
             THEN NotVerified("Amount mismatch")
             ELSE [verified |-> TRUE, error |-> NoStr,
                   signature |-> signature,
                   amount |-> tx.post[toIndex] - tx.pre[toIndex]]

\* ----------------------------------------------------------- routes/auth.js
\* An HTTP answer: the route, the session it was about, the status code and
\* the body; call/thrown say how the call of verifyAuthRequest made by the
\* handler ended, found what the ledger matcher had reported before it
\* (checkForIncomingTransaction's found, verifyTransaction's verified).
\* cleaned is for the one step that answers no request, the periodic sweep:
\* the count it returns and logs.
Resp(op, sid, code, body) ==
  [op |-> op, sid |-> sid, code |-> code, body |-> body,
   call |-> "none", thrown |-> NoStr, found |-> NoStr, cleaned |-> 0]
\* no answer: the handler is suspended at its await, or the step is not one
\* of a handler
NoResponse == Resp("none", UnknownId, 0, Body)

\* server.js error middleware: err.status || 500, err.message
ErrorMiddleware(op, sid, msg) ==
  Resp(op, sid, 500, [Body EXCEPT !.error = msg])

\* What a handler's step leaves in `last`: its answer a, unless the step
\* left the store and the suspended requests as they were.  Such a step is a
\* stuttering step of the store; what it answers is what the ...Answer
\* operators below give for the state it ran in.
Reply(a) ==
  IF <<pendingAuth', sessions', inflight'>> = <<pendingAuth, sessions, inflight>>
  THEN NoResponse
  ELSE a

\* A request suspended at its await: the route and the locals that live
\* across the await.
Request(op, sessionId, signature, status) ==
  [op |-> op, sid |-> sessionId, signature |-> signature, status |-> status]

\* The k oldest transactions of the ledger: its state when it had k entries.
LedgerAt(k) == SubSeq(ledger, Len(ledger) - k + 1, Len(ledger))

MissingId == -1
KnownIds == 1 .. (nextId - 1)
RequestIds == KnownIds \cup {UnknownId}

\* No function is applied on its own.
NoCall == [fn |-> "none", in |-> EmptyMap, out |-> EmptyMap]

Init ==
  /\ applied = NoCall
  /\ pendingAuth = EmptyMap
  /\ sessions = EmptyMap
  /\ timers = EmptyMap
  /\ nextId = 1
  /\ now = 0
  /\ env \in {Receiver, ""}
  /\ ledger = <<>>
  /\ inflight = EmptyBag
  /\ last = NoResponse

\* The clock advances.
Tick ==
  /\ UNCHANGED applied
  /\ now < MaxTime
  /\ now' = now + 1
  /\ last' = NoResponse
  /\ UNCHANGED <<pendingAuth, sessions, timers, nextId, env, ledger, inflight>>

\* A transaction to the receiver is confirmed on the ledger.
LedgerConfirm(tx) ==
  /\ UNCHANGED applied
  /\ \A i \in 1 .. Len(ledger) : ledger[i] # tx
  /\ ledger' = <<tx>> \o ledger
  /\ last' = NoResponse
  /\ UNCHANGED <<pendingAuth, sessions, timers, nextId, now, env, inflight>>

\* The answer of POST /initiate, r being the outcome of createAuthRequest.
InitiateAnswer(walletAddress, r) ==
  IF walletAddress = ""
  THEN Resp("initiate", UnknownId, 400,
            [Body EXCEPT !.error = "Wallet address is required"])
  ELSE IF walletAddress \notin Wallets
  THEN Resp("initiate", UnknownId, 400,
            [Body EXCEPT !.error = "Invalid Solana wallet address"])
  ELSE IF r.thrown # NoStr
  THEN ErrorMiddleware("initiate", UnknownId, r.thrown)
  ELSE Resp("initiate", r.ret.sessionId, 200,
            [r.ret EXCEPT !.success = "true"])

\* POST /initiate; d0, d1, d2: how far the clock moves between the four
\* clock reads of createAuthRequest.
Initiate(walletAddress, d0, d1, d2) ==
  /\ UNCHANGED applied
  /\ d0 + d1 + d2 <= MaxDrift
  /\ now + d0 + d1 + d2 <= MaxTime
  /\ UNCHANGED <<sessions, env, ledger, inflight>>
  /\ LET r == createAuthRequest(pendingAuth, timers, nextId, walletAddress, env, now, now + d0, now + d0 + d1, now + d0 + d1 + d2)
     IN /\ IF walletAddress \notin Wallets
           THEN /\ d0 + d1 + d2 = 0
                /\ UNCHANGED <<pendingAuth, timers, nextId, now>>
           ELSE /\ pendingAuth' = r.pendingAuth
                /\ timers' = r.timers
                /\ IF r.thrown = NoStr
                   THEN /\ nextId <= MaxSessions
                        /\ nextId' = nextId + 1
                        /\ now' = now + d0 + d1 + d2
                   ELSE /\ nextId' = nextId
                        /\ d1 + d2 = 0
                        /\ now' = now + d0
        /\ last' = Reply(InitiateAnswer(walletAddress, r))

\* The answer GET /status/:sessionId gives before its await, if it gives one.
StatusStartAnswer(sessionId) ==
  LET status == getAuthStatus(pendingAuth, sessions, sessionId, now).ret
  IN IF status.status \in {"verified", "expired", "not_found"}
     THEN Resp("status", sessionId, 200, status)
     ELSE NoResponse

\* GET /status/:sessionId up to the await of checkForIncomingTransaction
StatusStart(sessionId) ==
  /\ UNCHANGED applied
  /\ LET r == getAuthStatus(pendingAuth, sessions, sessionId, now)
     IN /\ pendingAuth' = r.pendingAuth
        /\ IF StatusStartAnswer(sessionId) # NoResponse
           THEN UNCHANGED inflight
           ELSE /\ BagCardinality(inflight) < NumHandlers
                /\ inflight' = inflight (+)
                     SetToBag({Request("status", sessionId, NoSig, r.ret)})
  /\ UNCHANGED sessions
  /\ last' = Reply(StatusStartAnswer(sessionId))
  /\ UNCHANGED <<timers, nextId, now, env, ledger>>

StatusAnswerSurfacesLedgerError(sessionId, status, transactionResult, v) ==
  IF transactionResult.found
  THEN IF v.thrown = NoStr
       THEN [Resp("status", sessionId, 200, v.ret) EXCEPT
               !.call = "returned", !.found = "true"]
       ELSE [Resp("status", sessionId, 200, status) EXCEPT
               !.call = "threw", !.thrown = v.thrown, !.found = "true"]
  ELSE IF transactionResult.error = NoStr
  THEN [Resp("status", sessionId, 200, status) EXCEPT !.found = "false"]
  ELSE [ErrorMiddleware("status", sessionId, transactionResult.error) EXCEPT
          !.found = "error"]
\* The answer of GET /status for a pending session, given the status read
\* before the await, the matcher's result and the outcome v of
\* verifyAuthRequest (used only when a match was found).
StatusAnswer(sessionId, status, transactionResult, v) ==
  IF transactionResult.found
  THEN IF v.thrown = NoStr
       THEN [Resp("status", sessionId, 200, v.ret) EXCEPT
               !.call = "returned", !.found = "true"]
       ELSE [Resp("status", sessionId, 200, status) EXCEPT
               !.call = "threw", !.thrown = v.thrown, !.found = "true"]
  ELSE [Resp("status", sessionId, 200, status) EXCEPT
          !.found = IF transactionResult.error = NoStr THEN "false"
                    ELSE "error"]

\* GET /status/:sessionId from the await on: the matcher has scanned the
\* ledger as it was with k entries (or an RPC call failed), the clock moves
\* by d between the two clock reads of verifyAuthRequest.
StatusResume(r, k, ioFails, d) ==
  /\ UNCHANGED applied
  /\ BagIn(r, inflight)
  /\ r.op = "status"
  /\ ioFails => k = 0
  /\ now + d <= MaxTime
  /\ LET transactionResult ==
           checkForIncomingTransaction(LedgerAt(k), ioFails,
                                       r.status.walletAddress,
                                       r.status.receiverAddress,
                                       r.status.expectedAmount)
         v == verifyAuthRequest(pendingAuth, sessions, r.sid,
                transactionResult.signature,
                [verified |-> TRUE, error |-> NoStr,
                 signature |-> transactionResult.signature,
                 amount |-> transactionResult.receivedAmount],
                now, now + d)
     IN /\ IF transactionResult.found
           THEN /\ pendingAuth' = v.pendingAuth
                /\ sessions' = v.sessions
                /\ now' = IF v.thrown = NoStr THEN now + d ELSE now
                /\ v.thrown # NoStr => d = 0
           ELSE /\ d = 0
                /\ UNCHANGED <<pendingAuth, sessions, now>>
        /\ last' = StatusAnswer(r.sid, r.status, transactionResult, v)
  /\ inflight' = inflight (-) SetToBag({r})
  /\ UNCHANGED <<timers, nextId, env, ledger>>

\* The answer POST /verify gives before its await, if it gives one.
VerifyStartAnswer(sessionId, signature) ==
  LET authStatus == getAuthStatus(pendingAuth, sessions, sessionId, now).ret
  IN IF sessionId = MissingId
     THEN Resp("verify", MissingId, 400,
               [Body EXCEPT !.error = "Session ID is required"])
     ELSE IF authStatus.status = "not_found"
     THEN Resp("verify", sessionId, 404,
               [Body EXCEPT !.error = "Session not found or expired"])
     ELSE IF authStatus.status = "expired"
     THEN Resp("verify", sessionId, 400,
               [Body EXCEPT !.error = "Session expired. Please start a new authentication request."])
     ELSE IF authStatus.status = "verified"
     THEN Resp("verify", sessionId, 200,
               [authStatus EXCEPT !.success = "true",
                                  !.message = "Already verified"])
     ELSE IF signature # NoSig
     THEN NoResponse
     ELSE Resp("verify", sessionId, 200,
               [authStatus EXCEPT !.success = "false"])

\* POST /verify up to the await of verifyTransaction
VerifyStart(sessionId, signature) ==
  /\ UNCHANGED applied
  /\ IF sessionId = MissingId
     THEN UNCHANGED <<pendingAuth, inflight>>
     ELSE LET r == getAuthStatus(pendingAuth, sessions, sessionId, now)
          IN /\ pendingAuth' = r.pendingAuth
             /\ IF VerifyStartAnswer(sessionId, signature) # NoResponse
                THEN UNCHANGED inflight
                ELSE /\ BagCardinality(inflight) < NumHandlers
                     /\ inflight' = inflight (+)
                          SetToBag({Request("verify", sessionId, signature,
                                            r.ret)})
  /\ UNCHANGED sessions
  /\ last' = Reply(VerifyStartAnswer(sessionId, signature))
  /\ UNCHANGED <<timers, nextId, now, env, ledger>>

\* The answer of POST /verify after its await, given verifyTransaction's
\* result and the outcome v of verifyAuthRequest.
VerifyAnswer(sessionId, verificationResult, v) ==
  LET verdict == IF verificationResult.verified THEN "true" ELSE "false"
  IN IF v.thrown # NoStr
     THEN [ErrorMiddleware("verify", sessionId, v.thrown) EXCEPT
             !.call = "threw", !.thrown = v.thrown, !.found = verdict]
     ELSE IF v.ret.success # "true"
     THEN [Resp("verify", sessionId, 400, v.ret) EXCEPT
             !.call = "returned", !.found = verdict]
     ELSE [Resp("verify", sessionId, 200, v.ret) EXCEPT
             !.call = "returned", !.found = verdict]

\* POST /verify from the await on: verifyTransaction has read the ledger as
\* it was with k entries (or its RPC call failed).
VerifyResume(r, k, ioFails, d) ==
  /\ UNCHANGED applied
  /\ BagIn(r, inflight)
  /\ r.op = "verify"
  /\ ioFails => k = 0
  /\ now + d <= MaxTime
  /\ LET verificationResult ==
           verifyTransaction(LedgerAt(k), ioFails, r.signature,
                             r.status.walletAddress,
                             r.status.receiverAddress,
                             r.status.expectedAmount)
         v == verifyAuthRequest(pendingAuth, sessions, r.sid, r.signature,
                                verificationResult, now, now + d)
     IN /\ pendingAuth' = v.pendingAuth
        /\ sessions' = v.sessions
        /\ IF v.thrown = NoStr /\ verificationResult.verified
           THEN now' = now + d
           ELSE d = 0 /\ now' = now
        /\ last' = VerifyAnswer(r.sid, verificationResult, v)
  /\ inflight' = inflight (-) SetToBag({r})
  /\ UNCHANGED <<timers, nextId, env, ledger>>

\* The answer of POST /logout.
LogoutAnswer(sessionId) ==
  IF sessionId = MissingId
  THEN Resp("logout", MissingId, 400,
            [Body EXCEPT !.error = "Session ID is required"])
  ELSE Resp("logout", sessionId, 200,
            invalidateSession(pendingAuth, sessions, sessionId).ret)

\* POST /logout
Logout(sessionId) ==
  /\ UNCHANGED applied
  /\ IF sessionId = MissingId
     THEN UNCHANGED <<pendingAuth, sessions>>
     ELSE LET r == invalidateSession(pendingAuth, sessions, sessionId)
          IN /\ pendingAuth' = r.pendingAuth
             /\ sessions' = r.sessions
  /\ UNCHANGED <<timers, nextId, now, env, ledger, inflight>>
  /\ last' = Reply(LogoutAnswer(sessionId))

\* setInterval(cleanupExpiredSessions, 5 * 60 * 1000)
Sweep ==
  /\ UNCHANGED applied
  /\ pendingAuth' = cleanupExpiredSessions(pendingAuth, now).pendingAuth
  /\ UNCHANGED <<sessions, timers, nextId, now, env, ledger, inflight>>
  /\ last' = Reply([NoResponse EXCEPT
                      !.op = "sweep",
                      !.cleaned = cleanupExpiredSessions(pendingAuth, now).ret])

\* The setTimeout callback of createAuthRequest runs.
TimerFire(sessionId) ==
  /\ UNCHANGED applied
  /\ Has(timers, sessionId)
  /\ now >= timers[sessionId]
  /\ pendingAuth' = expiryTimer(pendingAuth, sessionId)
  /\ timers' = Del(timers, sessionId)
  /\ last' = NoResponse
  /\ UNCHANGED <<sessions, nextId, now, env, ledger, inflight>>

Next ==
  \/ Tick
  \/ \E tx \in Txs : LedgerConfirm(tx)
  \/ \E w \in Wallets \cup {"", "bad"}, d0, d1, d2 \in 0 .. MaxDrift :
       Initiate(w, d0, d1, d2)
  \/ \E s \in RequestIds : StatusStart(s)
  \/ \E r \in BagToSet(inflight), k \in 0 .. Len(ledger), f \in BOOLEAN,
        d \in 0 .. MaxDrift : StatusResume(r, k, f, d)
  \/ \E s \in RequestIds \cup {MissingId}, sig \in Sigs \cup {NoSig} :
       VerifyStart(s, sig)
  \/ \E r \in BagToSet(inflight), k \in 0 .. Len(ledger), f \in BOOLEAN,
        d \in 0 .. MaxDrift : VerifyResume(r, k, f, d)
  \/ \E s \in RequestIds \cup {MissingId} : Logout(s)
  \/ Sweep
  \/ \E s \in DOMAIN timers : TimerFire(s)

Spec == Init /\ [][Next]_vars

TypeOK ==
  /\ DOMAIN pendingAuth \subseteq 1 .. MaxSessions
  /\ DOMAIN sessions \subseteq 1 .. MaxSessions
  /\ DOMAIN timers \subseteq 1 .. MaxSessions
  /\ nextId \in 1 .. MaxSessions + 1
  /\ now \in 0 .. MaxTime
  /\ BagCardinality(inflight) <= NumHandlers

\* ------------------------------------------ the functions applied on their own
\* Creation milliseconds tried: 42 and 1042 fall in one mod-1000 bucket, 42
\* and 43, 999 and 1000 are neighbours.
Millis == {0, 42, 43, 999, 1000, 1042}
\* Receiver balance changes tried, in lamports.  None lies on the edge of a
\* tolerance for an expectedAmount that Millis gives.
Deltas == {9100, 10042, 10900, 12000, 20000, 150000}
Senders == {"w1", "w2"}

\* A transfer of delta lamports from sender to the receiver; err: it failed
\* on chain.
PayTx(sender, delta, err) ==
  [signature |-> "sigP", keys |-> <<sender, Receiver>>,
   pre |-> <<500000, 7>>, post |-> <<495000 - delta, 7 + delta>>,
   err |-> err]
PayTxs == {PayTx(s, d, e) : s \in Senders, d \in Deltas, e \in BOOLEAN}
\* What the RPC node may serve: no transaction, or one.
Ledgers == {<<>>} \cup {<<tx>> : tx \in PayTxs}

\* createAuthRequest with the receiver address receiverAddress configured,
\* on a store that holds one request created at millisecond ta; tb is the
\* clock read the amount is derived from, tb + d the later clock reads.
ApplyCreate(receiverAddress, ta, tb, d) ==
  LET first == createAuthRequest(EmptyMap, EmptyMap, 1, "w1", Receiver, ta, ta, ta, ta)
  IN /\ applied' =
          [fn |-> "createAuthRequest",
           in |-> [pendingAuth |-> first.pendingAuth,
                   timers |-> first.timers,
                   receiverAddress |-> receiverAddress,
                   millis |-> <<ta, tb>>],
           out |-> createAuthRequest(first.pendingAuth, first.timers, 2, "w1", receiverAddress, tb, tb + d, tb + d, tb + d)]
     /\ UNCHANGED <<pendingAuth, sessions, timers, nextId, now, env, ledger, inflight, last>>

\* checkForIncomingTransaction for wallet w1 and the amount of a request
\* created at millisecond ms, when the RPC node serves ldg.
ApplyCheckForIncomingTransaction(ms, ldg, ioFails) ==
  LET expectedAmount == BaseAmount + uniqueModifier(ms)
  IN /\ applied' =
          [fn |-> "checkForIncomingTransaction",
           in |-> [ledger |-> ldg, ioFails |-> ioFails,
                   expectedAmount |-> expectedAmount],
           out |-> checkForIncomingTransaction(ldg, ioFails, "w1", Receiver, expectedAmount)]
     /\ UNCHANGED <<pendingAuth, sessions, timers, nextId, now, env, ledger, inflight, last>>

\* verifyTransaction of signature sigP for wallet w1 and the amount of a
\* request created at millisecond ms, when the RPC node serves ldg.
ApplyVerifyTransaction(ms, ldg, ioFails) ==
  LET expectedAmount == BaseAmount + uniqueModifier(ms)
  IN /\ applied' =
          [fn |-> "verifyTransaction",
           in |-> [ledger |-> ldg, ioFails |-> ioFails,
                   expectedAmount |-> expectedAmount],
           out |-> verifyTransaction(ldg, ioFails, "sigP", "w1", Receiver, expectedAmount)]
     /\ UNCHANGED <<pendingAuth, sessions, timers, nextId, now, env, ledger, inflight, last>>

ApplyNext ==
  \/ \E receiverAddress \in {Receiver, ""}, ta, tb \in Millis, d \in 0 .. MaxDrift :
       ApplyCreate(receiverAddress, ta, tb, d)
  \/ \E ms \in Millis, ldg \in Ledgers, f \in BOOLEAN :
       ApplyCheckForIncomingTransaction(ms, ldg, f)
  \/ \E ms \in Millis, ldg \in Ledgers, f \in BOOLEAN :
       ApplyVerifyTransaction(ms, ldg, f)

ApplySpec == Init /\ [][ApplyNext]_vars


\* ------------------------------------------------------------- properties
Pending == DOMAIN pendingAuth
Verified == DOMAIN sessions

\* The step just taken ran verifyAuthRequest to a successful commit.
Committed == last.call = "returned" /\ last.body.success = "true"

\* C1: a sessionId is never in both partitions, and the step that verifies a
\* session takes it out of the pending partition as it puts it into the
\* verified one.
C1_Partition ==
  /\ [](Pending \cap Verified = {})
  /\ [][\A s \in Verified' \ Verified : s \in Pending /\ s \notin Pending']_vars
C1_Witness == Committed /\ last.sid \in Verified /\ last.sid \notin Pending

\* C2: polls that race with a match for one session make one transition: a
\* commit only ever acts on a session that is pending and not verified, the
\* first poll to resume with a match on a pending, unexpired session commits
\* it with the matched signature, and a verified entry is never rewritten.
C2_OneTransition ==
  [][/\ Committed' =>
          /\ last'.sid \in Pending \ Verified
          /\ last'.sid \in Verified'
          /\ sessions'[last'.sid].signature = last'.body.signature
     /\ (last'.op = "status" /\ last'.found = "true"
           /\ last'.sid \in Pending
           /\ now <= pendingAuth[last'.sid].expiresAt) => Committed'
     /\ \A s \in Verified \cap Verified' : sessions'[s] = sessions[s]]_vars
C2_Witness ==
  /\ last.op = "status" /\ last.found = "true" /\ last.call = "threw"
  /\ last.sid \in Verified
  /\ sessions[last.sid].verifiedAt < now

\* C3 (as claimed): a poll that resumes with a match for a session that is
\* verified when it answers gives the verified result, never a pending view.
C3_SecondCommitterSeesVerified ==
  (last.op = "status" /\ last.found = "true" /\ last.sid \in Verified) =>
     /\ last.body.status # "pending"
     /\ last.body.walletAddress = sessions[last.sid].walletAddress
     /\ last.body.signature = sessions[last.sid].signature
     /\ last.body.verifiedAt = sessions[last.sid].verifiedAt

\* C4 (as claimed): verifyAuthRequest called with a verified proof on a
\* session that is in the verified partition returns success with the stored
\* walletAddress, signature and verifiedAt.
C4_VerifyIdempotent ==
  (last.call # "none" /\ last.found = "true" /\ last.sid \in Verified) =>
     /\ last.call = "returned"
     /\ last.body.success = "true"
     /\ last.body.sessionId = last.sid
     /\ last.body.walletAddress = sessions[last.sid].walletAddress
     /\ last.body.signature = sessions[last.sid].signature
     /\ last.body.verifiedAt = sessions[last.sid].verifiedAt

\* C5: a session enters the verified partition only in a step in which
\* verifyAuthRequest found it pending with now <= expiresAt; a call on an
\* absent session throws not-found and changes nothing; a call on a pending
\* session with now > expiresAt deletes the entry and throws expired.
C5_VerifyPreconditions ==
  [][/\ \A s \in Verified' \ Verified :
          /\ s \in Pending
          /\ now <= pendingAuth[s].expiresAt
          /\ Committed' /\ last'.sid = s
     /\ (last'.call # "none" /\ last'.sid \notin Pending) =>
          /\ last'.call = "threw"
          /\ last'.thrown = "Session not found or expired"
          /\ pendingAuth' = pendingAuth /\ sessions' = sessions
     /\ (last'.call # "none" /\ last'.sid \in Pending
           /\ now > pendingAuth[last'.sid].expiresAt) =>
          /\ last'.call = "threw"
          /\ last'.thrown = "Session expired"
          /\ last'.sid \notin Pending'
          /\ sessions' = sessions]_vars
C5_Witness ==
  /\ last.call = "threw" /\ last.thrown = "Session expired"
  /\ last.found = "true"
  /\ last.sid \notin Pending \cup Verified

\* C6: invalidateSession returns success whatever the session's state
\* (pending, verified or unknown) and leaves it in neither partition, POST
\* /logout answers 200 with that result, and a session that was issued and
\* is in neither partition stays in neither, whatever request resumes later.
C6_InvalidateFinal ==
  /\ [](\A s \in RequestIds :
          LET r == invalidateSession(pendingAuth, sessions, s)
          IN /\ r.ret.success = "true"
             /\ s \notin DOMAIN r.pendingAuth \cup DOMAIN r.sessions
             /\ LogoutAnswer(s).code = 200
             /\ LogoutAnswer(s).body = r.ret)
  /\ [][/\ \A s \in RequestIds : Logout(s) => s \notin Pending' \cup Verified'
        /\ \A s \in KnownIds :
             s \notin Pending \cup Verified => s \notin Pending' \cup Verified']_vars
\* A poll found a match for a session that was invalidated while the poll
\* waited for the ledger (the session is gone although it has not expired
\* and its timer has not fired), and its commit was refused.
C6_Witness ==
  /\ last.op = "status" /\ last.call = "threw" /\ last.found = "true"
  /\ last.sid \notin Pending \cup Verified
  /\ last.sid \in DOMAIN timers
  /\ now <= last.body.expiresAt

\* A call of getAuthStatus on sessionId made by the step (the two routes
\* start with one).
StatusCall(sessionId) ==
  StatusStart(sessionId) \/ \E sig \in Sigs \cup {NoSig} : VerifyStart(sessionId, sig)

\* C7 (as claimed): a session that is neither verified nor invalidated is
\* reported expired exactly once, by the first getAuthStatus after
\* expiresAt, whichever of lazy expiry, timer and sweep runs first.  So a
\* pending entry leaves the store unverified only by invalidation or in
\* the getAuthStatus call that reports it expired.
C7_ExpiredExactlyOnce ==
  [][\A s \in Pending \ (Pending' \cup Verified') :
       \/ Logout(s)
       \/ /\ StatusCall(s)
          /\ getAuthStatus(pendingAuth, sessions, s, now).ret.status = "expired"]_vars

\* C7 (amended): getAuthStatus returns expired for a session only when it
\* finds the entry pending with now > expiresAt, and it deletes the entry
\* in that call; a session that was issued and is in neither partition
\* stays so and getAuthStatus returns not_found for it.  So expired is
\* returned at most once per session and not_found ever after.
C7_ExpiredAtMostOnce ==
  /\ [](\A s \in RequestIds :
          LET g == getAuthStatus(pendingAuth, sessions, s, now)
          IN /\ g.ret.status = "expired" =>
                  /\ s \in Pending /\ now > pendingAuth[s].expiresAt
                  /\ s \notin DOMAIN g.pendingAuth
             /\ s \notin Pending \cup Verified => g.ret.status = "not_found")
  /\ [][/\ \A s \in KnownIds :
             s \notin Pending \cup Verified => s \notin Pending' \cup Verified'
        /\ \A s \in Pending :
             (StatusCall(s) /\ now > pendingAuth[s].expiresAt) =>
                /\ last'.body.status \in {"expired", NoStr}
                /\ last'.code \in {200, 400}
                /\ s \notin Pending' \cup Verified']_vars
C7_Witness ==
  /\ last.op = "status" /\ last.body.status = "expired"
  /\ last.sid \notin Pending \cup Verified
  /\ StatusStartAnswer(last.sid).body.status = "not_found"

\* C8: verifyAuthRequest with a proof that did not verify, on a pending and
\* unexpired session, returns the failure with the reason and changes
\* neither partition; getAuthStatus then still returns pending.
C8_FailedProofKeepsPending ==
  [][(last'.call # "none" /\ last'.found = "false"
        /\ last'.sid \in Pending
        /\ now <= pendingAuth[last'.sid].expiresAt) =>
       /\ last'.call = "returned"
       /\ last'.body.success = "false"
       /\ last'.body.error \in {"Transaction not found or not yet confirmed",
                                "rpc error"}
       /\ pendingAuth' = pendingAuth
       /\ sessions' = sessions
       /\ getAuthStatus(pendingAuth', sessions', last'.sid, now').ret.status
            = "pending"]_vars
C8_Witness ==
  /\ last.call = "returned" /\ last.body.success = "false"
  /\ last.sid \in Pending

\* C9 (as claimed): POST /verify with a sessionId and a signature answers
\* 404 (unknown session), 400 or 200, before its await or after it, never
\* 500.
C9_VerifyStatusCodes ==
  /\ \A s \in RequestIds, sig \in Sigs :
       LET a == VerifyStartAnswer(s, sig)
       IN \/ a = NoResponse
          \/ a.code = 404 /\ s \notin Pending \cup Verified
          \/ a.code = 400
          \/ a.code = 200
  /\ last.op = "verify" =>
       \/ last.code = 404 /\ last.sid \notin Pending \cup Verified
       \/ last.code = 400
       \/ last.code = 200

\* C10: a poll whose ledger query failed answers 200 with the pending view
\* it read before the query and changes neither partition; a poll of a
\* pending session that is past expiresAt is answered expired before the
\* await, and leaves no request waiting for the ledger.
C10_LedgerErrorIsPending ==
  /\ [](\A s \in Pending :
          now > pendingAuth[s].expiresAt =>
            StatusStartAnswer(s).body.status = "expired")
  /\ [][/\ (last'.op = "status" /\ last'.found = "error") =>
             /\ last'.code = 200
             /\ last'.body.status = "pending"
             /\ last'.body.error = NoStr
             /\ pendingAuth' = pendingAuth
             /\ sessions' = sessions
        /\ \A s \in Pending :
             (StatusStart(s) /\ now > pendingAuth[s].expiresAt) =>
                /\ inflight' = inflight
                /\ last'.body.status = "expired"]_vars
C10_Witness ==
  /\ last.op = "status" /\ last.found = "error"
  /\ last.sid \in Pending
  /\ now <= pendingAuth[last.sid].expiresAt

\* The function fn was applied, without RPC failure, for a request of
\* 10042 lamports when the ledger held one successful transfer of delta
\* lamports from the claimed wallet.
PaidFor10042(fn, delta) ==
  /\ applied.fn = fn
  /\ applied.in.expectedAmount = 10042
  /\ applied.in.ledger = <<PayTx("w1", delta, FALSE)>>
  /\ ~applied.in.ioFails

\* C11 (as claimed): for an expectedAmount of 10042 lamports, a transfer of
\* 10042 lamports is accepted and one of 20000 lamports is rejected, by
\* checkForIncomingTransaction and by verifyTransaction alike.
C11_AmountAcceptance ==
  /\ PaidFor10042("checkForIncomingTransaction", 10042) => applied.out.found
  /\ PaidFor10042("checkForIncomingTransaction", 20000) => ~applied.out.found
  /\ PaidFor10042("verifyTransaction", 10042) => applied.out.verified
  /\ PaidFor10042("verifyTransaction", 20000) => ~applied.out.verified

\* C12: createAuthRequest called while no receiver address is configured
\* throws the configuration error and returns the store as it was: no
\* pending entry is added and no timer is scheduled.
C12_NoReceiverNoChange ==
  (applied.fn = "createAuthRequest" /\ applied.in.receiverAddress = "") =>
     /\ applied.out.thrown = "RECEIVER_WALLET_ADDRESS not configured"
     /\ applied.out.pendingAuth = applied.in.pendingAuth
     /\ applied.out.timers = applied.in.timers
C12_Witness ==
  /\ applied.fn = "createAuthRequest"
  /\ applied.in.receiverAddress = ""
  /\ applied.out.thrown # NoStr
  /\ DOMAIN applied.out.pendingAuth = {1}

EntryOf(pa, ss, sessionId) ==
  <<IF Has(pa, sessionId) THEN <<pa[sessionId]>> ELSE <<>>,
    IF Has(ss, sessionId) THEN <<ss[sessionId]>> ELSE <<>>>>

\* The step is one of create, getStatus, verify or invalidate for sessionId:
\* a step of a route handler that was called with it (or, for create, that
\* draws it as the new id).
OnSession(sessionId) ==
  \/ /\ sessionId = nextId
     /\ \E w \in Wallets, d0, d1, d2 \in 0 .. MaxDrift : Initiate(w, d0, d1, d2)
  \/ StatusStart(sessionId)
  \/ \E sig \in Sigs \cup {NoSig} : VerifyStart(sessionId, sig)
  \/ \E r \in BagToSet(inflight), k \in 0 .. Len(ledger), f \in BOOLEAN, d \in 0 .. MaxDrift :
       r.sid = sessionId /\ (StatusResume(r, k, f, d) \/ VerifyResume(r, k, f, d))
  \/ Logout(sessionId)

\* C14: a step of create, getStatus, verify or invalidate for one sessionId
\* leaves every other issued sessionId's membership in the two partitions
\* and its stored fields as they were: a step that changes what the store
\* holds for s is no step of such an operation for another sessionId.
C14_OtherSessionsUntouched ==
  [][\A s \in KnownIds :
       EntryOf(pendingAuth', sessions', s) # EntryOf(pendingAuth, sessions, s) =>
         \A x \in (RequestIds \cup {nextId}) \ {s} : ~OnSession(x)]_vars
\* One session was just verified by a poll while another one is pending.
C14_Witness ==
  /\ Committed /\ last.op = "status"
  /\ last.sid \in Verified
  /\ \E s \in Pending : s # last.sid

\* C15: cleanupExpiredSessions removes from the pending partition exactly
\* the entries with now > expiresAt and returns how many it removed; the
\* sweep leaves the other pending entries and the verified partition as
\* they were.
C15_SweepRemovesExpired ==
  /\ [](cleanupExpiredSessions(pendingAuth, now).ret
          = Cardinality({s \in Pending : now > pendingAuth[s].expiresAt}))
  /\ [][/\ Sweep =>
             /\ Pending' = {s \in Pending : now <= pendingAuth[s].expiresAt}
             /\ \A s \in Pending' : pendingAuth'[s] = pendingAuth[s]
             /\ sessions' = sessions
        /\ last'.op = "sweep" =>
             /\ last'.cleaned = Cardinality(Pending \ Pending')
             /\ last'.cleaned > 0]_vars
\* A sweep removed one expired request and kept one that has not expired.
C15_Witness ==
  /\ last.op = "sweep" /\ last.cleaned = 1
  /\ \E s \in Pending : now <= pendingAuth[s].expiresAt

\* A poll of sessionId resumes with what the ledger holds now, no RPC call
\* having failed.
GoodPoll(sessionId) ==
  \E r \in BagToSet(inflight), d \in 0 .. MaxDrift :
     r.sid = sessionId /\ StatusResume(r, Len(ledger), FALSE, d)

\* An awaited RPC call settles.
Settles ==
  \E r \in BagToSet(inflight), k \in 0 .. Len(ledger), f \in BOOLEAN, d \in 0 .. MaxDrift :
     StatusResume(r, k, f, d) \/ VerifyResume(r, k, f, d)

\* The server just after POST /initiate created its first session, at some
\* time t0 and with some drift between the clock reads of createAuthRequest.
AfterCreate ==
  \E t0 \in 0 .. MaxTime, d0, d1, d2 \in 0 .. MaxDrift :
     /\ d0 + d1 + d2 <= MaxDrift
     /\ t0 + d0 + d1 + d2 <= MaxTime
     /\ LET r == createAuthRequest(EmptyMap, EmptyMap, 1, "w1", Receiver, t0, t0 + d0, t0 + d0 + d1, t0 + d0 + d1 + d2)
        IN /\ pendingAuth = r.pendingAuth
           /\ timers = r.timers
           /\ last = InitiateAnswer("w1", r)
     /\ now = t0 + d0 + d1 + d2
     /\ sessions = EmptyMap
     /\ nextId = 2
     /\ env = Receiver
     /\ ledger = <<>>
     /\ inflight = EmptyBag
     /\ applied = NoCall

\* Every step of the server but the creation of further sessions.
NextOfSession ==
  \/ Tick
  \/ \E tx \in Txs : LedgerConfirm(tx)
  \/ \E s \in RequestIds : StatusStart(s)
  \/ \E r \in BagToSet(inflight), k \in 0 .. Len(ledger), f \in BOOLEAN,
        d \in 0 .. MaxDrift : StatusResume(r, k, f, d)
  \/ \E s \in RequestIds \cup {MissingId}, sig \in Sigs \cup {NoSig} :
       VerifyStart(s, sig)
  \/ \E r \in BagToSet(inflight), k \in 0 .. Len(ledger), f \in BOOLEAN,
        d \in 0 .. MaxDrift : VerifyResume(r, k, f, d)
  \/ \E s \in RequestIds \cup {MissingId} : Logout(s)
  \/ Sweep
  \/ \E s \in DOMAIN timers : TimerFire(s)

\* One session, with a client that keeps polling GET /status for it, a
\* matcher that keeps answering from the current ledger, and RPC calls that
\* settle.
PollingSpec ==
  /\ AfterCreate
  /\ [][NextOfSession]_vars
  /\ WF_vars(Settles)
  /\ SF_vars(StatusStart(1))
  /\ SF_vars(GoodPoll(1))

\* checkForIncomingTransaction would report a match for the pending session.
MatchVisible(sessionId) ==
  checkForIncomingTransaction(ledger, FALSE,
                              pendingAuth[sessionId].walletAddress,
                              pendingAuth[sessionId].receiverAddress,
                              pendingAuth[sessionId].expectedAmount).found

\* C16: under PollingSpec the pending session, once its matching payment
\* is on the ledger, eventually is verified, unless it stops being a
\* pending, unexpired session first; and a poll that resumes with a match while the
\* session is pending and unexpired commits it and answers success with the
\* signature of the matched transaction.
C16_PollingVerifies ==
  /\ (1 \in Pending /\ MatchVisible(1)) ~>
        \/ 1 \in Verified
        \/ 1 \notin Pending
        \/ now > pendingAuth[1].expiresAt
  /\ [][(last'.op = "status" /\ last'.found = "true"
           /\ last'.sid \in Pending
           /\ now <= pendingAuth[last'.sid].expiresAt) =>
          /\ last'.call = "returned"
          /\ last'.body.success = "true"
          /\ last'.sid \in Verified' \ Pending'
          /\ \E i \in 1 .. Len(ledger) :
               /\ ledger[i].signature = last'.body.signature
               /\ sessions'[last'.sid].signature = ledger[i].signature]_vars
C16_Witness ==
  /\ Committed /\ last.op = "status"
  /\ last.sid \in Verified
  /\ sessions[last.sid].signature = "sigA"
  /\ now <= sessions[last.sid].expiresAt

\* C17 (as claimed): while now <= expiresAt getAuthStatus reports a pending
\* request as pending, and no step removes a pending request at a time
\* now <= expiresAt other than by verifying or invalidating it.
C17_PendingUntilExpiry ==
  /\ [](\A s \in Pending :
          now <= pendingAuth[s].expiresAt =>
            getAuthStatus(pendingAuth, sessions, s, now).ret.status = "pending")
  /\ [][\A s \in Pending \ Pending' :
          now <= pendingAuth[s].expiresAt => s \in Verified' \/ Logout(s)]_vars

\* C18 (as claimed): every stored request has
\* expiresAt = createdAt + SESSION_EXPIRY.
C18_ExpiresAtFromCreatedAt ==
  /\ \A s \in Pending :
       pendingAuth[s].expiresAt = pendingAuth[s].createdAt + SESSION_EXPIRY
  /\ \A s \in Verified :
       sessions[s].expiresAt = sessions[s].createdAt + SESSION_EXPIRY

\* One session and the periodic sweep, which setInterval keeps running; no
\* client is obliged to call again, and the session's own timer may fire or
\* not.
CleanupSpec ==
  /\ AfterCreate
  /\ [][NextOfSession]_vars
  /\ WF_vars(Sweep)

\* C19: under CleanupSpec a pending request whose expiresAt has passed is
\* eventually removed from the pending partition, whether or not any client
\* calls again.
C19_ExpiredEventuallyRemoved ==
  (1 \in Pending /\ now > pendingAuth[1].expiresAt) ~> (1 \notin Pending)
\* The request was removed after expiresAt by the sweep: it is in neither
\* partition, no client call has removed it, and its timer has not fired.
C19_Witness ==
  /\ last.op = "sweep" /\ last.cleaned = 1
  /\ 1 \notin Pending \cup Verified
  /\ 1 \in DOMAIN timers

\* C20 (as claimed): two distinct sessions in the verified partition never
\* carry the same transaction signature.
C20_OneSessionPerTransaction ==
  \A s1, s2 \in Verified :
    s1 # s2 => sessions[s1].signature # sessions[s2].signature

\* C21: a verified session stays in the verified partition with the same
\* walletAddress, signature and verifiedAt through every step that is not
\* its invalidation (the clock passing expiresAt, its expiry timer, the
\* sweep, getAuthStatus, polls and proofs that resume later), and
\* getAuthStatus returns verified with the stored values for it and leaves
\* the pending partition as it is.
C21_VerifiedUntilInvalidated ==
  /\ [](\A s \in Verified :
          LET g == getAuthStatus(pendingAuth, sessions, s, now)
          IN /\ g.ret.status = "verified"
             /\ g.ret.verified = "true"
             /\ g.ret.walletAddress = sessions[s].walletAddress
             /\ g.ret.signature = sessions[s].signature
             /\ g.ret.verifiedAt = sessions[s].verifiedAt
             /\ g.pendingAuth = pendingAuth)
  /\ [][\A s \in Verified :
          \/ Logout(s)
          \/ /\ s \in Verified'
             /\ sessions'[s].walletAddress = sessions[s].walletAddress
             /\ sessions'[s].signature = sessions[s].signature
             /\ sessions'[s].verifiedAt = sessions[s].verifiedAt]_vars
\* A session verified before its expiresAt is still verified after
\* expiresAt has passed, its timer has fired and the sweep has removed
\* another request.
C21_Witness ==
  /\ last.op = "sweep" /\ last.cleaned = 1
  /\ \E s \in Verified :
       /\ now > sessions[s].expiresAt
       /\ sessions[s].verifiedAt <= sessions[s].expiresAt
       /\ s \notin DOMAIN timers

====
